---- MODULE Spec2Model ----
(***************************************************************************)
(* The dispatch engine of the Gemini proxy: QueueManager and               *)
(* GoogleApiKeyManager (app/queue_manager.py) and the retry / key-rotation *)
(* loop of GeminiClient (app/gemini_client.py).                            *)
(*                                                                         *)
(* Threads: the callers of enqueue_request (one per request), the          *)
(* dispatcher thread running _process_queue, one worker thread per         *)
(* dispatched request running _execute_request, and pollers calling        *)
(* get_request_status.  Each action is one step a thread takes without     *)
(* another thread being able to observe an intermediate state (a critical  *)
(* section under a lock, or a single read / write of shared state).        *)
(* Time is the wall clock time.time(), in whole seconds.                   *)
(***************************************************************************)
EXTENDS Integers, Sequences, FiniteSets, TLC

(* ---------------------------- bounds ---------------------------------- *)
MaxReq == 3          \* request ids 1..MaxReq (uuid4 values, all distinct)
MaxKeys == 2         \* the longest api_keys list
MaxRpm == 2          \* the largest rpm_per_key
StartTime == 60      \* time.time() when the engine is constructed
TickSeconds == 30    \* granularity of the modelled clock
MaxCallers == 3      \* concurrent callers of start_ / stop_processing
MaxUses == 3         \* record_usage calls per key made on the bare pool

(* ----------------------- program constants ---------------------------- *)
None == -1               \* Optional[...] = None for a key / key index
WindowSeconds == 60      \* minute_ago = current_time - 60
MaxAgeSeconds == 3600    \* clean_old_results(max_age_seconds=3600)
max_retries == 2         \* GeminiClient.max_retries (key rotations)
BackoffSeconds == 3      \* time.sleep(3) before the same-key retry

Reqs == 1..MaxReq
Callers == 1..MaxCallers
ThreadIds == 1..MaxCallers     \* each caller creates at most one Thread
Outcomes == {"ok", "null", "server_error", "quota", "other"}

(***************************************************************************)
(* The configurations explored.  A configuration fixes what the engine is  *)
(* constructed with (api_keys, rpm_per_key, max_concurrent), how many      *)
(* requests its callers enqueue and with which priorities, what the        *)
(* upstream may answer, and how far the clock runs.                        *)
(***************************************************************************)
Configs ==
    { \* one key under load: the rate limiter and the concurrency cap
      [ name |-> "load",
        init_failures |-> FALSE,
        nreq |-> MaxReq, nkeys |-> 1, rpm |-> MaxRpm, maxc |-> MaxReq - 1,
        prios |-> {1}, upstream |-> {"ok"},
        ticks |-> {TickSeconds},
        horizon |-> StartTime + WindowSeconds ],
      \* priorities and concurrent callers, a cap of one
      [ name |-> "order",
        init_failures |-> FALSE,
        nreq |-> MaxReq - 1, nkeys |-> 1, rpm |-> MaxRpm, maxc |-> 1,
        prios |-> {1, 5}, upstream |-> {"ok", "other"},
        ticks |-> {TickSeconds},
        horizon |-> StartTime + TickSeconds ],
      \* one request (scenarios S3, S4, S5) against every upstream answer
      [ name |-> "retry",
        init_failures |-> TRUE,
        nreq |-> 1, nkeys |-> MaxKeys, rpm |-> MaxRpm, maxc |-> 1,
        prios |-> {1}, upstream |-> Outcomes,
        ticks |-> {TickSeconds},
        horizon |-> StartTime + TickSeconds ],
      \* one request whose every invocation fails with a retriable error
      [ name |-> "exhaust",
        init_failures |-> FALSE,
        nreq |-> 1, nkeys |-> MaxKeys, rpm |-> MaxRpm, maxc |-> 1,
        prios |-> {1}, upstream |-> {"server_error", "quota"},
        ticks |-> {TickSeconds},
        horizon |-> StartTime + (max_retries + 1) * TickSeconds ],
      \* no request: the key pool alone, over one whole window
      [ name |-> "pool",
        init_failures |-> FALSE,
        nreq |-> 0, nkeys |-> MaxKeys, rpm |-> MaxRpm, maxc |-> 1,
        prios |-> {1}, upstream |-> {"ok"},
        ticks |-> {TickSeconds},
        horizon |-> StartTime + WindowSeconds ],
      \* one request on one key against a transient upstream (scenario S4)
      [ name |-> "transient",
        init_failures |-> FALSE,
        nreq |-> 1, nkeys |-> 1, rpm |-> MaxRpm, maxc |-> 1,
        prios |-> {1}, upstream |-> {"ok", "server_error"},
        ticks |-> {TickSeconds},
        horizon |-> StartTime + TickSeconds ],
      \* a cap of one and requests of two priorities (scenario S6)
      [ name |-> "s6",
        init_failures |-> FALSE,
        nreq |-> MaxReq, nkeys |-> 1, rpm |-> MaxRpm, maxc |-> 1,
        prios |-> {1, 5}, upstream |-> {"ok"},
        ticks |-> {TickSeconds},
        horizon |-> StartTime + TickSeconds ],
      \* workers running side by side on the shared GeminiClient
      [ name |-> "race",
        init_failures |-> FALSE,
        nreq |-> MaxReq - 1, nkeys |-> MaxKeys, rpm |-> MaxRpm,
        maxc |-> MaxReq - 1,
        prios |-> {1}, upstream |-> {"ok"},
        ticks |-> {TickSeconds},
        horizon |-> StartTime ],
      \* two workers side by side on two keys while a client may have failed
      \* to initialise
      [ name |-> "unusable",
        init_failures |-> TRUE,
        nreq |-> 2, nkeys |-> 2, rpm |-> MaxRpm, maxc |-> 2,
        prios |-> {1}, upstream |-> {"ok", "quota"},
        ticks |-> {TickSeconds},
        horizon |-> StartTime ],
      \* result retention: the clock runs past max_age_seconds
      [ name |-> "retention",
        init_failures |-> FALSE,
        nreq |-> MaxReq - 1, nkeys |-> 1, rpm |-> MaxRpm, maxc |-> 1,
        prios |-> {1}, upstream |-> {"ok", "other"},
        ticks |-> {MaxAgeSeconds},
        horizon |-> StartTime + MaxAgeSeconds + MaxAgeSeconds ] }

VARIABLES
    cfg,                 \* the configuration (fixed at construction)
    now,                 \* time.time()
    items,               \* the QueueItem objects, by request id
    results,             \* keys of QueueManager.results
    queue,               \* ids held by QueueManager.queue (PriorityQueue)
    key_timestamps,      \* GoogleApiKeyManager.key_timestamps
    last_request_times,  \* GoogleApiKeyManager.last_request_times
    active_requests,     \* QueueManager.active_requests
    thread_alive,        \* processing_thread is not None and is_alive()
    stop_event,          \* QueueManager.stop_event
    epc,                 \* position of the caller of enqueue_request(r)
    dpc,                 \* position of the dispatcher in _process_queue
    d_key,               \* _process_queue local google_api_key
    d_item,              \* _process_queue local item
    current_key_index,   \* GeminiClient.current_key_index (shared)
    clients,             \* indexes i with GeminiClient.clients[i] not None
    wpc,                 \* position of the worker of request r
    w_client,            \* execute_with_retry local client (its key index)
    w_retries,           \* execute_with_retry local retries
    w_attempt,           \* execute_with_retry local attempt
    w_original,          \* _get_current_client local original_key_index
    w_last_error,        \* execute_with_retry local last_error (its kind)
    w_wake,              \* end of the worker's time.sleep(3)
    w_result,            \* execute_with_retry local result
    calls,               \* history: <<key index, outcome>> per invocation
    call_at,             \* history: <<retries, attempt>> of each invocation
    usage_log,           \* history: times of the record_usage(k) calls
    dispatched_at,       \* history: when item.status became "processing"
    terminal_at,         \* history: when item.status became terminal
    processing_thread,   \* QueueManager.processing_thread (a thread id)
    tstate,              \* state of each threading.Thread created
    lpc,                 \* position of each caller of start_ / stop_processing
    held,                \* the thread holding each threading.Lock, or None
    tpos                 \* position of each thread in its locking steps

vars == << cfg, now, items, results, queue, key_timestamps,
           last_request_times, active_requests, thread_alive, stop_event, epc,
           dpc, d_key, d_item, current_key_index, clients, wpc, w_client,
           w_retries, w_attempt, w_original, w_last_error, w_wake, w_result,
           calls, call_at, usage_log, dispatched_at, terminal_at, processing_thread,
           tstate, lpc, held, tpos >>

engineVars == << items, results, queue, key_timestamps, last_request_times,
                 active_requests >>
lifeVars == << processing_thread, tstate, lpc >>
threadVars == << thread_alive, stop_event, lifeVars >>
enqVars == << epc >>
dispVars == << dpc, d_key, d_item >>
clientVars == << current_key_index, clients >>
workerVars == << wpc, w_client, w_retries, w_attempt, w_original,
                 w_last_error, w_wake, w_result >>
lockVars == << held, tpos >>
histVars == << cfg, lockVars, calls, call_at, usage_log, dispatched_at,
              terminal_at >>

\* QueueManager.__init__ / GoogleApiKeyManager.__init__ arguments
Keys == 0..(cfg.nkeys - 1)           \* index into api_keys
rpm_per_key == cfg.rpm
max_concurrent == cfg.maxc

(* ------------------- the engine's locks, step by step ------------------- *)
\* QueueManager.lock, QueueManager.active_lock, GoogleApiKeyManager.key_locks
ResultsLock == << "lock", 0 >>
ActiveLock == << "active_lock", 0 >>
KeyLock(k) == << "key_lock", k >>
Locks == {ResultsLock, ActiveLock} \cup { KeyLock(k) : k \in Keys }

\* thread 0 runs _process_queue, thread 1 _execute_request, the others are
\* request handlers calling the public methods
LThreads == 0..(MaxCallers - 1)
IdlePos == [ prog |-> << "idle", 0 >>, pc |-> 0 ]

\* "with L:" is an acquire and a release; "call" is the upstream invocation
Acq(l) == [ op |-> "acq", lock |-> l ]
Rel(l) == [ op |-> "rel", lock |-> l ]
With(l) == << Acq(l), Rel(l) >>
UpstreamCall == [ op |-> "call", lock |-> ResultsLock ]

RECURSIVE KeyScanSteps(_)
\* for key in self.api_keys: with self.key_locks[key]: ...
KeyScanSteps(n) ==
    IF n = 0 THEN << >> ELSE KeyScanSteps(n - 1) \o With(KeyLock(n - 1))

\* enqueue_request: with self.lock: put, results[id] = item
EnqueueSteps == With(ResultsLock)

\* get_request_status: with self.lock
StatusSteps == With(ResultsLock)

\* a get_queue_stats that reads active_requests inside the results lock
StatsSteps_Nested ==
    << Acq(ResultsLock), Acq(ActiveLock), Rel(ActiveLock), Rel(ResultsLock) >>
        \o KeyScanSteps(cfg.nkeys)

\* get_queue_stats: with self.lock; with self.active_lock;
\* get_all_keys_status()
StatsSteps ==
    With(ResultsLock) \o With(ActiveLock) \o KeyScanSteps(cfg.nkeys)

\* one iteration of _process_queue that dispatches on key k:
\* clean_old_results, _can_start_new_request, get_available_key, the
\* marking, record_usage(k), the increment of active_requests
DispatchSteps(k) ==
    With(ResultsLock) \o With(ActiveLock) \o KeyScanSteps(cfg.nkeys)
        \o With(ResultsLock) \o With(KeyLock(k)) \o With(ActiveLock)

\* an _execute_request that invokes the upstream inside the results lock
WorkerSteps_CallUnderLock ==
    << Acq(ResultsLock), UpstreamCall, Rel(ResultsLock) >> \o With(ActiveLock)

\* _execute_request: the operation, then with self.lock the result or the
\* error, finally with self.active_lock the decrement
WorkerSteps ==
    << UpstreamCall >> \o With(ResultsLock) \o With(ActiveLock)

\* the steps of program p
Steps(p) ==
    IF p[1] = "dispatch" THEN DispatchSteps(p[2])
    ELSE IF p[1] = "worker" THEN WorkerSteps
    ELSE IF p[1] = "enqueue" THEN EnqueueSteps
    ELSE IF p[1] = "status" THEN StatusSteps
    ELSE IF p[1] = "stats" THEN StatsSteps
    ELSE << >>

\* what thread t can run
ProgramsOf(t) ==
    IF t = 0 THEN { << "dispatch", k >> : k \in Keys }
    ELSE IF t = 1 THEN { << "worker", 0 >> }
    ELSE { << "enqueue", 0 >>, << "status", 0 >>, << "stats", 0 >> }

(* ------------------------------ helpers -------------------------------- *)
RECURSIVE SelectSeq2(_, _)
\* [ts for ts in seq if ts > bound]
SelectSeq2(seq, bound) ==
    IF seq = << >> THEN << >>
    ELSE IF Head(seq) > bound
         THEN << Head(seq) >> \o SelectSeq2(Tail(seq), bound)
         ELSE SelectSeq2(Tail(seq), bound)

\* deque(..., maxlen=rpm_per_key*2).append(x): the oldest entry falls out
DequeAppend(seq, x) ==
    IF Len(seq) >= 2 * rpm_per_key THEN Tail(seq) \o << x >> ELSE seq \o << x >>

\* QueueItem.__lt__
Lt(a, b) ==
    IF items[a].priority # items[b].priority
    THEN items[a].priority < items[b].priority
    ELSE items[a].timestamp < items[b].timestamp

\* a queue that returns any of its entries
QueueHeads_Unordered == queue

\* the entries PriorityQueue.get may return: those no other entry is less than
QueueHeads == { r \in queue : \A q \in queue : ~Lt(q, r) }

NewItem == [ timestamp |-> 0, priority |-> 1, status |-> "none",
             result |-> "None", error |-> "None", google_api_key |-> None ]

(* GoogleApiKeyManager.get_available_key at time t: the pruned deques and  *)
(* the key chosen.  The loop visits api_keys in order; Scan(n) is the pair *)
(* (best_key, max_capacity) after the first n keys.                        *)
Pruned(t) ==
    [ k \in Keys |-> SelectSeq2(key_timestamps[k], t - WindowSeconds) ]

\* a get_available_key without the minimum-interval guard
IntervalOk_Unguarded(k, t) == TRUE

IntervalOk(k, t) ==
    \* time_since_last >= 60.0 / rpm_per_key
    (t - last_request_times[k]) * rpm_per_key >= WindowSeconds

\* a get_available_key that keeps the first key whose interval has elapsed
Better_First(capacity, max_capacity) == max_capacity = -1

Better(capacity, max_capacity) == capacity > max_capacity

RECURSIVE Scan(_, _)
Scan(n, t) ==
    IF n = 0 THEN << None, -1 >>
    ELSE LET prev == Scan(n - 1, t)
             k == n - 1
             available_capacity == rpm_per_key - Len(Pruned(t)[k])
         IN IF Better(available_capacity, prev[2]) /\ IntervalOk(k, t)
            THEN << k, available_capacity >>
            ELSE prev

get_available_key(t) == Scan(cfg.nkeys, t)[1]

\* GoogleApiKeyManager.get_all_keys_status at time t: what it returns
get_all_keys_status(t) ==
    [ k \in Keys |->
        [ requests_last_minute |-> Len(Pruned(t)[k]),
          available_capacity |-> rpm_per_key - Len(Pruned(t)[k]),
          last_used |-> last_request_times[k],
          time_since_last |-> t - last_request_times[k] ] ]

\* GeminiClient._rotate_key
Rotated(i) == (i + 1) % cfg.nkeys

\* QueueManager.get_request_status
get_request_status(r) ==
    IF r \in results
    THEN [ status |-> items[r].status, result |-> items[r].result,
           error |-> items[r].error, timestamp |-> items[r].timestamp,
           google_api_key |-> items[r].google_api_key ]
    ELSE [ status |-> "not_found", result |-> "None", error |-> "None",
           timestamp |-> 0, google_api_key |-> None ]

(* ------------------------------- Init ---------------------------------- *)
(* GeminiClient.__init__: the key indices whose genai.Client was created;  *)
(* it raises when none was.  Failed creations are explored where the       *)
(* configuration says so.                                                  *)
UsableSets ==
    IF cfg.init_failures THEN (SUBSET Keys) \ {{}} ELSE {Keys}

Init ==
    /\ cfg \in Configs
    /\ now = StartTime
    /\ items = [ r \in Reqs |-> NewItem ]
    /\ results = {}
    /\ queue = {}
    /\ key_timestamps = [ k \in Keys |-> << >> ]
    /\ last_request_times = [ k \in Keys |-> 0 ]
    /\ active_requests = 0
    /\ thread_alive = FALSE
    /\ stop_event = FALSE
    /\ epc = [ r \in Reqs |-> "idle" ]
    /\ dpc = "not_started"
    /\ d_key = None
    /\ d_item = 0
    /\ current_key_index = 0
    /\ clients \in UsableSets
    /\ wpc = [ r \in Reqs |-> "idle" ]
    /\ w_client = [ r \in Reqs |-> None ]
    /\ w_retries = [ r \in Reqs |-> 0 ]
    /\ w_attempt = [ r \in Reqs |-> 0 ]
    /\ w_original = [ r \in Reqs |-> None ]
    /\ w_last_error = [ r \in Reqs |-> "none" ]
    /\ w_wake = [ r \in Reqs |-> 0 ]
    /\ w_result = [ r \in Reqs |-> "None" ]
    /\ calls = [ r \in Reqs |-> << >> ]
    /\ call_at = [ r \in Reqs |-> << >> ]
    /\ usage_log = [ k \in Keys |-> << >> ]
    /\ dispatched_at = [ r \in Reqs |-> None ]
    /\ terminal_at = [ r \in Reqs |-> None ]
    /\ processing_thread = None
    /\ tstate = [ t \in ThreadIds |-> "none" ]
    /\ lpc = [ c \in Callers |-> "idle" ]
    /\ held = [ l \in Locks |-> None ]
    /\ tpos = [ t \in LThreads |-> IdlePos ]

(* ------------------------------ the clock ------------------------------ *)
Tick ==
    /\ \E d \in cfg.ticks :
          /\ now + d <= cfg.horizon
          /\ now' = now + d
    /\ UNCHANGED << engineVars, threadVars, enqVars, dispVars, clientVars,
                    workerVars, histVars >>

\* a stored time seen from an origin moved d seconds later (0 = long ago)
Shift(v, d) == IF v > d THEN v - d ELSE 0
ShiftOpt(v, d) == IF v = None THEN None ELSE Shift(v, d)

(* The clock without a last instant: up to the horizon time.time() grows   *)
(* by a tick; from there on a long time passes at once and the origin of   *)
(* time moves with it, so that every stored time that was not in the       *)
(* future becomes "long ago" while the comparisons the code makes between  *)
(* the clock and a stored time keep their meaning.                         *)
Elapse ==
    /\ \E d \in cfg.ticks :
          IF now + d <= cfg.horizon
          THEN /\ now' = now + d
               /\ UNCHANGED << items, key_timestamps, last_request_times,
                               w_wake, usage_log, dispatched_at,
                               terminal_at >>
          ELSE /\ now' = now
               /\ items' = [ r \in Reqs |->
                               [ items[r] EXCEPT
                                   !.timestamp = Shift(@, cfg.horizon) ] ]
               /\ key_timestamps' =
                     [ k \in Keys |->
                         [ i \in 1..Len(key_timestamps[k]) |->
                               Shift(key_timestamps[k][i], cfg.horizon) ] ]
               /\ last_request_times' =
                     [ k \in Keys |->
                         Shift(last_request_times[k], cfg.horizon) ]
               /\ w_wake' = [ r \in Reqs |-> Shift(w_wake[r], cfg.horizon) ]
               /\ usage_log' =
                     [ k \in Keys |->
                         [ i \in 1..Len(usage_log[k]) |->
                               Shift(usage_log[k][i], cfg.horizon) ] ]
               /\ dispatched_at' =
                     [ r \in Reqs |-> ShiftOpt(dispatched_at[r], cfg.horizon) ]
               /\ terminal_at' =
                     [ r \in Reqs |-> ShiftOpt(terminal_at[r], cfg.horizon) ]
    /\ UNCHANGED << results, queue, active_requests, threadVars, enqVars,
                    dispVars, clientVars, wpc, w_client, w_retries, w_attempt,
                    w_original, w_last_error, w_result, cfg, lockVars, calls,
                    call_at >>

(* --------------------- start_processing / startup ---------------------- *)
\* QueueManager.start_processing, as called by the startup event
StartProcessing ==
    /\ dpc = "not_started"
    /\ ~thread_alive
    /\ stop_event' = FALSE
    /\ thread_alive' = TRUE
    /\ dpc' = "clean"
    /\ UNCHANGED << now, engineVars, enqVars, d_key, d_item, clientVars,
                    workerVars, histVars, lifeVars >>

(* ------- start_processing / stop_processing under concurrent callers --- *)
\* everything but the state start_processing and stop_processing touch
restVars == << cfg, lockVars, now, engineVars, thread_alive, enqVars, dispVars,
               clientVars, workerVars, calls, call_at, usage_log, dispatched_at,
               terminal_at >>

\* Thread.is_alive() of self.processing_thread
is_alive == processing_thread # None /\ tstate[processing_thread] = "running"

\* a caller enters start_processing (the startup event, enqueue_request) or
\* stop_processing (the shutdown event)
LCall(c) ==
    /\ lpc[c] = "idle"
    /\ \E op \in {"start_check", "stop_check"} : lpc' = [lpc EXCEPT ![c] = op]
    /\ UNCHANGED << restVars, stop_event, processing_thread, tstate >>

\* if self.processing_thread is None or not self.processing_thread.is_alive()
StartCheck(c) ==
    /\ lpc[c] = "start_check"
    /\ lpc' = [lpc EXCEPT ![c] = IF is_alive THEN "done" ELSE "start_clear"]
    /\ UNCHANGED << restVars, stop_event, processing_thread, tstate >>

\* self.stop_event.clear()
StartClear(c) ==
    /\ lpc[c] = "start_clear"
    /\ stop_event' = FALSE
    /\ lpc' = [lpc EXCEPT ![c] = "start_assign"]
    /\ UNCHANGED << restVars, processing_thread, tstate >>

\* self.processing_thread = threading.Thread(target=self._process_queue)
StartAssign(c) ==
    /\ lpc[c] = "start_assign"
    /\ \E t \in ThreadIds :
          /\ tstate[t] = "none"
          /\ \A u \in ThreadIds : u < t => tstate[u] # "none"
          /\ tstate' = [tstate EXCEPT ![t] = "created"]
          /\ processing_thread' = t
    /\ lpc' = [lpc EXCEPT ![c] = "start_start"]
    /\ UNCHANGED << restVars, stop_event >>

\* self.processing_thread.start(): a Thread can be started once, a second
\* start raises RuntimeError
StartStart(c) ==
    /\ lpc[c] = "start_start"
    /\ tstate' = [tstate EXCEPT ![processing_thread] =
                     IF @ = "created" THEN "running" ELSE @]
    /\ lpc' = [lpc EXCEPT ![c] = "done"]
    /\ UNCHANGED << restVars, stop_event, processing_thread >>

\* if self.processing_thread and self.processing_thread.is_alive()
StopCheck(c) ==
    /\ lpc[c] = "stop_check"
    /\ lpc' = [lpc EXCEPT ![c] = IF is_alive THEN "stop_set" ELSE "done"]
    /\ UNCHANGED << restVars, stop_event, processing_thread, tstate >>

\* self.stop_event.set()
StopSet(c) ==
    /\ lpc[c] = "stop_set"
    /\ stop_event' = TRUE
    /\ lpc' = [lpc EXCEPT ![c] = "stop_join"]
    /\ UNCHANGED << restVars, processing_thread, tstate >>

\* self.processing_thread.join(timeout=5.0): the thread ended or 5 s passed
StopJoin(c) ==
    /\ lpc[c] = "stop_join"
    /\ lpc' = [lpc EXCEPT ![c] = "done"]
    /\ UNCHANGED << restVars, stop_event, processing_thread, tstate >>

\* _process_queue in thread t: while not self.stop_event.is_set() fails
LoopExit(t) ==
    /\ tstate[t] = "running"
    /\ stop_event
    /\ tstate' = [tstate EXCEPT ![t] = "finished"]
    /\ UNCHANGED << restVars, stop_event, processing_thread, lpc >>

(* --------------------------- enqueue_request --------------------------- *)
\* item = QueueItem(id=uuid4(), timestamp=time.time(), priority=..., ...)
EnqueueCreate(r) ==
    /\ thread_alive
    /\ r <= cfg.nreq
    /\ epc[r] = "idle"
    /\ \A q \in Reqs : q < r => epc[q] # "idle"
    /\ \E p \in cfg.prios :
          items' = [items EXCEPT ![r] =
                       [NewItem EXCEPT !.timestamp = now, !.priority = p,
                                       !.status = "pending"]]
    /\ epc' = [epc EXCEPT ![r] = "created"]
    /\ UNCHANGED << now, results, queue, key_timestamps, last_request_times,
                    active_requests, threadVars, dispVars, clientVars,
                    workerVars, histVars >>

\* with self.lock: queue.put(item); results[id] = item -- then
\* start_processing(), which finds the dispatcher thread alive
EnqueueInsert(r) ==
    /\ epc[r] = "created"
    /\ queue' = queue \cup {r}
    /\ results' = results \cup {r}
    /\ epc' = [epc EXCEPT ![r] = "done"]
    /\ UNCHANGED << now, items, key_timestamps, last_request_times,
                    active_requests, threadVars, dispVars, clientVars,
                    workerVars, histVars >>

(* --------------------- get_queue_stats (the pool) ---------------------- *)
\* get_queue_stats -> get_all_keys_status: it prunes the deques it reports
GetQueueStats ==
    /\ thread_alive
    /\ key_timestamps' = Pruned(now)
    /\ UNCHANGED << now, items, results, queue, last_request_times,
                    active_requests, threadVars, enqVars, dispVars, clientVars,
                    workerVars, histVars >>

(* --------------------------- _process_queue ---------------------------- *)
Terminal(st) == st \in {"completed", "failed"}

\* a clean_old_results that looks at the age only
keys_to_remove_AnyStatus(t) ==
    { r \in results : (t - items[r].timestamp) > MaxAgeSeconds }

\* clean_old_results at time t: the keys it removes
keys_to_remove(t) ==
    { r \in results : /\ Terminal(items[r].status)
                      /\ (t - items[r].timestamp) > MaxAgeSeconds }

\* while not stop_event.is_set(): clean_old_results()
DClean ==
    /\ dpc = "clean"
    /\ ~stop_event
    /\ results' = results \ keys_to_remove(now)
    /\ dpc' = "empty"
    /\ UNCHANGED << now, items, queue, key_timestamps, last_request_times,
                    active_requests, threadVars, enqVars, d_key, d_item,
                    clientVars, workerVars, histVars >>

\* if self.queue.empty(): sleep; continue
DEmpty ==
    /\ dpc = "empty"
    /\ dpc' = IF queue = {} THEN "clean" ELSE "can_start"
    /\ UNCHANGED << now, engineVars, threadVars, enqVars, d_key, d_item,
                    clientVars, workerVars, histVars >>

\* an off-by-one admission check
_can_start_new_request_OffByOne == active_requests <= max_concurrent

_can_start_new_request == active_requests < max_concurrent

\* if not self._can_start_new_request(): sleep; continue
DCanStart ==
    /\ dpc = "can_start"
    /\ dpc' = IF _can_start_new_request THEN "get_key" ELSE "clean"
    /\ UNCHANGED << now, engineVars, threadVars, enqVars, d_key, d_item,
                    clientVars, workerVars, histVars >>

\* google_api_key = self.key_manager.get_available_key()
DGetKey ==
    /\ dpc = "get_key"
    /\ key_timestamps' = Pruned(now)
    /\ d_key' = get_available_key(now)
    /\ dpc' = IF get_available_key(now) = None THEN "clean" ELSE "get"
    /\ UNCHANGED << now, items, results, queue, last_request_times,
                    active_requests, threadVars, enqVars, d_item, clientVars,
                    workerVars, histVars >>

\* a get that returns the head without removing it
QueueAfterGet_Peek(r) == queue

\* what PriorityQueue.get leaves in the queue when it returns r
QueueAfterGet(r) == queue \ {r}

\* item = self.queue.get(block=False)
DGet ==
    /\ dpc = "get"
    /\ IF queue = {}
       THEN /\ dpc' = "clean"
            /\ d_key' = None
            /\ UNCHANGED << queue, d_item >>
       ELSE \E r \in QueueHeads :
               /\ queue' = QueueAfterGet(r)
               /\ d_item' = r
               /\ dpc' = "mark"
               /\ UNCHANGED d_key
    /\ UNCHANGED << now, items, results, key_timestamps, last_request_times,
                    active_requests, threadVars, enqVars, clientVars,
                    workerVars, histVars >>

\* a dispatcher that marks the item processing and assigns no key
Marked_NoKey(item, key) == [item EXCEPT !.status = "processing"]

\* item.status = "processing"; item.google_api_key = google_api_key
Marked(item, key) ==
    [item EXCEPT !.status = "processing", !.google_api_key = key]

\* with self.lock: item.status = "processing"; item.google_api_key = ...
DMark ==
    /\ dpc = "mark"
    /\ items' = [items EXCEPT ![d_item] = Marked(@, d_key)]
    /\ results' = results \cup {d_item}
    /\ dispatched_at' = [dispatched_at EXCEPT ![d_item] = now]
    /\ dpc' = "record"
    /\ UNCHANGED << now, queue, key_timestamps, last_request_times,
                    active_requests, threadVars, enqVars, d_key, d_item,
                    clientVars, workerVars, cfg, lockVars, calls, call_at, usage_log,
                    terminal_at >>

\* a record_usage that appends the timestamp twice
record_usage_Twice(key, t) ==
    /\ key_timestamps' =
          [key_timestamps EXCEPT ![key] =
              DequeAppend(DequeAppend(key_timestamps[key], t), t)]
    /\ last_request_times' = [last_request_times EXCEPT ![key] = t]
    /\ usage_log' = [usage_log EXCEPT ![key] = Append(Append(usage_log[key], t), t)]

\* GoogleApiKeyManager.record_usage(key) at time t
record_usage(key, t) ==
    /\ key_timestamps' =
          [key_timestamps EXCEPT ![key] = DequeAppend(key_timestamps[key], t)]
    /\ last_request_times' = [last_request_times EXCEPT ![key] = t]
    /\ usage_log' = [usage_log EXCEPT ![key] = Append(usage_log[key], t)]

\* self.key_manager.record_usage(google_api_key)
DRecord ==
    /\ dpc = "record"
    /\ record_usage(d_key, now)
    /\ dpc' = "launch"
    /\ UNCHANGED << now, items, results, queue, active_requests, threadVars,
                    enqVars, d_key, d_item, clientVars, workerVars, cfg, lockVars,
                    calls, call_at, dispatched_at, terminal_at >>

\* with self.active_lock: self.active_requests += 1 -- then thread.start()
DLaunch ==
    /\ dpc = "launch"
    /\ active_requests' = active_requests + 1
    /\ wpc' = [wpc EXCEPT ![d_item] = "set_api_key"]
    /\ dpc' = "clean"
    /\ d_key' = None
    /\ d_item' = 0
    /\ UNCHANGED << now, items, results, queue, key_timestamps,
                    last_request_times, threadVars, enqVars, clientVars,
                    w_client, w_retries, w_attempt, w_original, w_last_error,
                    w_wake, w_result, histVars >>

(* ----------- _execute_request / GeminiClient.execute_with_retry -------- *)
\* client.set_api_key(google_api_key): current_key_index = idx of the key;
\* then operation_func(**item.args) enters execute_with_retry: retries = 0
WSetApiKey(r) ==
    /\ wpc[r] = "set_api_key"
    /\ current_key_index' = items[r].google_api_key
    /\ w_retries' = [w_retries EXCEPT ![r] = 0]
    /\ w_last_error' = [w_last_error EXCEPT ![r] = "none"]
    /\ wpc' = [wpc EXCEPT ![r] = "get_client"]
    /\ UNCHANGED << now, engineVars, threadVars, enqVars, dispVars, clients,
                    w_client, w_attempt, w_original, w_wake, w_result, histVars >>

\* client = self._get_current_client(): client = clients.get(index)
WGetClient(r) ==
    /\ wpc[r] = "get_client"
    /\ IF current_key_index \in clients
       THEN /\ w_client' = [w_client EXCEPT ![r] = current_key_index]
            /\ w_attempt' = [w_attempt EXCEPT ![r] = 0]
            /\ wpc' = [wpc EXCEPT ![r] = "invoke"]
            /\ UNCHANGED w_original
       ELSE /\ w_original' = [w_original EXCEPT ![r] = current_key_index]
            /\ wpc' = [wpc EXCEPT ![r] = "search_rotate"]
            /\ UNCHANGED << w_client, w_attempt >>
    /\ UNCHANGED << now, engineVars, threadVars, enqVars, dispVars, clientVars,
                    w_retries, w_last_error, w_wake, w_result, histVars >>

\* _get_current_client, while client is None: self._rotate_key()
WSearchRotate(r) ==
    /\ wpc[r] = "search_rotate"
    /\ current_key_index' = Rotated(current_key_index)
    /\ wpc' = [wpc EXCEPT ![r] = "search_check"]
    /\ UNCHANGED << now, engineVars, threadVars, enqVars, dispVars, clients,
                    w_client, w_retries, w_attempt, w_original, w_last_error,
                    w_wake, w_result, histVars >>

\* _get_current_client: client = clients.get(index); full circle -> raise
WSearchCheck(r) ==
    /\ wpc[r] = "search_check"
    /\ IF current_key_index \in clients
       THEN /\ w_client' = [w_client EXCEPT ![r] = current_key_index]
            /\ w_attempt' = [w_attempt EXCEPT ![r] = 0]
            /\ wpc' = [wpc EXCEPT ![r] = "invoke"]
            /\ UNCHANGED w_last_error
       ELSE IF current_key_index = w_original[r]
       THEN /\ w_last_error' = [w_last_error EXCEPT ![r] = "all_unusable"]
            /\ wpc' = [wpc EXCEPT ![r] = "write_failed"]
            /\ UNCHANGED << w_client, w_attempt >>
       ELSE /\ wpc' = [wpc EXCEPT ![r] = "search_rotate"]
            /\ UNCHANGED << w_client, w_attempt, w_last_error >>
    /\ UNCHANGED << now, engineVars, threadVars, enqVars, dispVars, clientVars,
                    w_retries, w_original, w_wake, w_result, histVars >>

\* an execute_with_retry that retries a quota error like a server error
AfterInvoke_QuotaRetried(o, a) ==
    IF o = "ok" THEN "write_completed"
    ELSE IF o \in {"server_error", "quota"}
         THEN (IF a = 0 THEN "backoff" ELSE "write_failed")
    ELSE "write_failed"

\* an execute_with_retry that rotates on every error but a server error
AfterInvoke_OtherRotates(o, a) ==
    IF o = "ok" THEN "write_completed"
    ELSE IF o = "server_error"
         THEN (IF a = 0 THEN "backoff" ELSE "write_failed")
    ELSE IF o \in {"quota", "other"} THEN "rotate"
    ELSE "write_failed"

\* an execute_with_retry without the "result is None" check
AfterInvoke_NoNoneCheck(o, a) ==
    IF o \in {"ok", "null"} THEN "write_completed"
    ELSE IF o = "server_error"
         THEN (IF a = 0 THEN "backoff" ELSE "write_failed")
    ELSE IF o = "quota" THEN "rotate"
    ELSE "write_failed"

(* What execute_with_retry does with the outcome o of an invocation made   *)
(* on attempt a: the worker's next position.                               *)
AfterInvoke(o, a) ==
    IF o = "ok" THEN "write_completed"
    ELSE IF o = "server_error"
         THEN (IF a = 0 THEN "backoff" ELSE "write_failed")
    ELSE IF o = "quota" THEN "rotate"
    ELSE "write_failed"      \* None response (ValueError) or any other error

\* result = operation_to_execute(*args, **kwargs), and the except clause
WInvoke(r) ==
    /\ wpc[r] = "invoke"
    /\ \E o \in cfg.upstream :
          /\ wpc' = [wpc EXCEPT ![r] = AfterInvoke(o, w_attempt[r])]
          /\ w_result' = [w_result EXCEPT ![r] =
                             IF o = "ok" THEN "result" ELSE "None"]
          /\ w_last_error' = [w_last_error EXCEPT ![r] =
                                 IF AfterInvoke(o, w_attempt[r])
                                        = "write_completed"
                                 THEN @ ELSE o]
          /\ w_wake' = [w_wake EXCEPT ![r] =
                           IF AfterInvoke(o, w_attempt[r]) = "backoff"
                           THEN now + BackoffSeconds ELSE @]
          /\ calls' = [calls EXCEPT ![r] = Append(@, << w_client[r], o >>)]
          /\ call_at' = [call_at EXCEPT ![r] =
                            Append(@, << w_retries[r], w_attempt[r] >>)]
    /\ UNCHANGED << now, engineVars, threadVars, enqVars, dispVars, clientVars,
                    w_client, w_retries, w_attempt, w_original, cfg, lockVars,
                    usage_log, dispatched_at, terminal_at >>

\* a sleep that returns at once
SleepOver_NoWait(r) == TRUE

\* time.sleep(3) has returned: 3 s have passed since the failed attempt
SleepOver(r) == now >= w_wake[r]

\* time.sleep(3) is over: second attempt on the same client
WBackoff(r) ==
    /\ wpc[r] = "backoff"
    /\ SleepOver(r)
    /\ w_attempt' = [w_attempt EXCEPT ![r] = 1]
    /\ wpc' = [wpc EXCEPT ![r] = "invoke"]
    /\ UNCHANGED << now, engineVars, threadVars, enqVars, dispVars, clientVars,
                    w_client, w_retries, w_original, w_last_error, w_wake,
                    w_result, histVars >>

\* a rotation test that allows one rotation more
CanRotate_OneMore(retries) == retries <= max_retries

\* if retries < self.max_retries
CanRotate(retries) == retries < max_retries

\* after the attempt loop: rotate if retries < max_retries, else raise
WRotate(r) ==
    /\ wpc[r] = "rotate"
    /\ IF CanRotate(w_retries[r])
       THEN /\ current_key_index' = Rotated(current_key_index)
            /\ w_retries' = [w_retries EXCEPT ![r] = @ + 1]
            /\ wpc' = [wpc EXCEPT ![r] = "get_client"]
       ELSE /\ wpc' = [wpc EXCEPT ![r] = "write_failed"]
            /\ UNCHANGED << current_key_index, w_retries >>
    /\ UNCHANGED << now, engineVars, threadVars, enqVars, dispVars, clients,
                    w_client, w_attempt, w_original, w_last_error, w_wake,
                    w_result, histVars >>

\* with self.lock: item.result = result; item.status = "completed"
WriteCompleted(r) ==
    /\ wpc[r] = "write_completed"
    /\ items' = [items EXCEPT ![r].result = w_result[r],
                              ![r].status = "completed"]
    /\ results' = results \cup {r}
    /\ terminal_at' = [terminal_at EXCEPT ![r] = now]
    /\ wpc' = [wpc EXCEPT ![r] = "finally"]
    /\ UNCHANGED << now, queue, key_timestamps, last_request_times,
                    active_requests, threadVars, enqVars, dispVars, clientVars,
                    w_client, w_retries, w_attempt, w_original, w_last_error,
                    w_wake, w_result, cfg, lockVars, calls, call_at, usage_log,
                    dispatched_at >>

\* except: with self.lock: item.error = str(e); item.status = "failed"
WriteFailed(r) ==
    /\ wpc[r] = "write_failed"
    /\ items' = [items EXCEPT ![r].error = w_last_error[r],
                              ![r].status = "failed"]
    /\ results' = results \cup {r}
    /\ terminal_at' = [terminal_at EXCEPT ![r] = now]
    /\ wpc' = [wpc EXCEPT ![r] = "finally"]
    /\ UNCHANGED << now, queue, key_timestamps, last_request_times,
                    active_requests, threadVars, enqVars, dispVars, clientVars,
                    w_client, w_retries, w_attempt, w_original, w_last_error,
                    w_wake, w_result, cfg, lockVars, calls, call_at, usage_log,
                    dispatched_at >>

\* a worker that decrements in its except clause and again in finally
ActiveAfterFinally_Twice(n) == n - 2

\* a worker that returns without the decrement
ActiveAfterFinally_Leak(n) == n

\* self.active_requests -= 1
ActiveAfterFinally(n) == n - 1

\* finally: with self.active_lock: self.active_requests -= 1
WFinally(r) ==
    /\ wpc[r] = "finally"
    /\ active_requests' = ActiveAfterFinally(active_requests)
    /\ wpc' = [wpc EXCEPT ![r] = "done"]
    /\ w_client' = [w_client EXCEPT ![r] = None]
    /\ w_retries' = [w_retries EXCEPT ![r] = 0]
    /\ w_attempt' = [w_attempt EXCEPT ![r] = 0]
    /\ w_original' = [w_original EXCEPT ![r] = None]
    /\ w_last_error' = [w_last_error EXCEPT ![r] = "none"]
    /\ w_result' = [w_result EXCEPT ![r] = "None"]
    /\ w_wake' = [w_wake EXCEPT ![r] = 0]
    /\ UNCHANGED << now, items, results, queue, key_timestamps,
                    last_request_times, threadVars, enqVars, dispVars,
                    clientVars, histVars >>

(* ------------------------------- Next ---------------------------------- *)
Dispatcher ==
    \/ DClean \/ DEmpty \/ DCanStart \/ DGetKey \/ DGet \/ DMark \/ DRecord
    \/ DLaunch

Worker(r) ==
    \/ WSetApiKey(r) \/ WGetClient(r) \/ WSearchRotate(r) \/ WSearchCheck(r)
    \/ WInvoke(r) \/ WBackoff(r) \/ WRotate(r) \/ WriteCompleted(r)
    \/ WriteFailed(r) \/ WFinally(r)

Next ==
    \/ Tick
    \/ StartProcessing
    \/ \E r \in Reqs : EnqueueCreate(r) \/ EnqueueInsert(r)
    \/ GetQueueStats
    \/ Dispatcher
    \/ \E r \in Reqs : Worker(r)

Spec == Init /\ [][Next]_vars

(* start_processing and stop_processing called by concurrent threads, on  *)
(* an engine with nothing queued.                                          *)
InitLifecycle == Init /\ cfg.name = "transient"

NextLifecycle ==
    \/ \E c \in Callers :
          \/ LCall(c)
          \/ StartCheck(c) \/ StartClear(c) \/ StartAssign(c) \/ StartStart(c)
          \/ StopCheck(c) \/ StopSet(c) \/ StopJoin(c)
    \/ \E t \in ThreadIds : LoopExit(t)

LifecycleSpec == InitLifecycle /\ [][NextLifecycle]_vars

(* The same program under a clock that never stops, with the dispatcher    *)
(* thread and every worker thread scheduled fairly.                        *)
NextLive ==
    \/ Elapse
    \/ StartProcessing
    \/ \E r \in Reqs : EnqueueCreate(r) \/ EnqueueInsert(r)
    \/ GetQueueStats
    \/ Dispatcher
    \/ \E r \in Reqs : Worker(r)

Fairness ==
    /\ WF_vars(Elapse)
    /\ WF_vars(Dispatcher)
    /\ \A r \in Reqs : WF_vars(Worker(r))

\* the fair runs are explored for the configurations below MaxReq requests,
\* failed client initialisations for a single request only
InitLive ==
    /\ Init
    /\ cfg.nreq < MaxReq
    /\ cfg.init_failures => cfg.nreq = 1

LiveSpec == InitLive /\ [][NextLive]_vars /\ Fairness

(* ============================== claims ================================= *)

\* the record_usage(k) calls whose time lies in [lo, hi] / in [lo, hi)
UsesClosed(k, lo, hi) ==
    { j \in 1..Len(usage_log[k]) :
         lo <= usage_log[k][j] /\ usage_log[k][j] <= hi }
UsesHalfOpen(k, lo, hi) ==
    { j \in 1..Len(usage_log[k]) :
         lo <= usage_log[k][j] /\ usage_log[k][j] < hi }

ProcessingRecords == { r \in results : items[r].status = "processing" }

Dispatched(st) == st \in {"processing", "completed", "failed"}

(* C4 (as stated): for two requests of equal priority with                 *)
(* timestamp(r1) < timestamp(r2), r1 becomes processing no later than r2:  *)
(* r2 is never past pending while r1 is still pending.                     *)
C4_FifoWithinPriority ==
    \A r1, r2 \in Reqs :
        ( /\ items[r1].status = "pending"
          /\ items[r1].priority = items[r2].priority
          /\ items[r1].timestamp < items[r2].timestamp )
        => ~Dispatched(items[r2].status)

(* C5: with a running dispatcher, fair scheduling and an upstream that     *)
(* always answers, every enqueued request eventually is completed or       *)
(* failed (or garbage-collected); none stays pending or processing.        *)
C5_NoOrphan ==
    \A r \in Reqs :
        (epc[r] = "done")
            ~> (Terminal(items[r].status) \/ r \notin results)

\* an enqueued request waits in the queue while no key is eligible
C5_Witness ==
    \E r \in queue :
        /\ epc[r] = "done"
        /\ items[r].status = "pending"
        /\ get_available_key(now) = None

\* the status changes a record may make in one step
StatusStep(a, b) ==
    \/ a = b
    \/ a = "none" /\ b = "pending"
    \/ a = "pending" /\ b = "processing"
    \/ a = "processing" /\ b \in {"completed", "failed"}

(* C6: the status of every record only changes along                       *)
(* pending -> processing -> (completed | failed).                          *)
C6_StatusTransitions ==
    [][ \A r \in Reqs : StatusStep(items[r].status, items'[r].status) ]_vars

\* one record has completed and another has failed
C6_Witness ==
    \E r, q \in results :
        items[r].status = "completed" /\ items[q].status = "failed"

(* C7: once get_request_status(id) shows completed or failed, it returns   *)
(* the same answer for as long as the record is in results.                *)
C7_Terminality ==
    [][ \A r \in Reqs :
          ( /\ r \in results
            /\ Terminal(items[r].status)
            /\ r \in results' )
          => get_request_status(r)' = get_request_status(r) ]_vars

\* a terminal record still held max_age_seconds after it was enqueued
C7_Witness ==
    \E r \in results :
        /\ Terminal(items[r].status)
        /\ wpc[r] = "done"
        /\ now - items[r].timestamp >= MaxAgeSeconds

(* C8: for every record get_request_status can return, result is set iff   *)
(* status is completed and error is set iff status is failed.              *)
C8_ResultXorError ==
    \A r \in results :
        /\ (get_request_status(r).result # "None")
              <=> (get_request_status(r).status = "completed")
        /\ (get_request_status(r).error # "None")
              <=> (get_request_status(r).status = "failed")

\* a request failed on a None response, and another one completed
C8_Witness ==
    /\ \E r \in results :
          /\ items[r].status = "failed"
          /\ items[r].error = "null"
          /\ items[r].result = "None"
    /\ \E cf \in Configs :
          cf.name = "retry" /\ cf = cfg

\* scenario S3: one request, invoked on key 0 (quota) and then key 1 (ok)
S3(r) ==
    /\ cfg.nreq = 1
    /\ clients = Keys
    /\ calls[r] = << << 0, "quota" >>, << 1, "ok" >> >>
    /\ wpc[r] = "done"

(* C9 (as stated): in scenario S3 the record ends completed and its        *)
(* google_api_key is credential 1, the one that produced the result.       *)
C9_AssignedIsServingCredential ==
    \A r \in Reqs :
        S3(r) => /\ get_request_status(r).status = "completed"
                 /\ get_request_status(r).google_api_key = 1

(* C10 (as stated): in scenario S3 get_all_keys_status shows one use on    *)
(* credential 0 and one on credential 1.                                   *)
C10_UsageOnRotation ==
    \A r \in Reqs :
        S3(r) => /\ get_all_keys_status(now)[0].requests_last_minute = 1
                 /\ get_all_keys_status(now)[1].requests_last_minute = 1

\* every upstream answer request r has had so far was a quota error
OnlyQuota(r) ==
    \A i \in 1..Len(calls[r]) : calls[r][i][2] = "quota"

(* C11: scenario S5, one request enqueued: when every upstream invocation *)
(* for it answers with a quota error, the upstream is invoked at most      *)
(* max_retries + 1 times for it and the request ends failed, carrying the  *)
(* quota error.                                                            *)
C11_QuotaExhausted ==
    \A r \in Reqs :
        (cfg.nreq = 1 /\ calls[r] # << >> /\ OnlyQuota(r))
        => /\ Len(calls[r]) <= max_retries + 1
           /\ wpc[r] = "done"
                => /\ get_request_status(r).status = "failed"
                   /\ get_request_status(r).error = "quota"

\* scenario S5: both keys usable, quota errors on key 0, key 1 and key 0
C11_Witness ==
    \E r \in results :
        /\ clients = Keys
        /\ calls[r] = << << 0, "quota" >>, << 1, "quota" >>, << 0, "quota" >> >>
        /\ wpc[r] = "done"
        /\ items[r].status = "failed"

\* scenario S4 for request r on key k: a server error, then a response
S4(r, k) ==
    /\ cfg.nreq = 1
    /\ clients = Keys
    /\ calls[r] = << << k, "server_error" >>, << k, "ok" >> >>
    /\ wpc[r] = "done"

(* C12: after a server error on the first attempt the second attempt is    *)
(* made on the same credential, not before the 3 s backoff is over (the    *)
(* worker holds w_wake = time of the failed attempt + 3 until it ends);    *)
(* when the second attempt succeeds (S4) the record ends completed and the *)
(* pool has exactly one use of that credential recorded.                   *)
C12_TransientRetry ==
    \A r \in Reqs :
        /\ \A i \in 1..Len(calls[r]) :
              (calls[r][i][2] = "server_error" /\ i < Len(calls[r]))
              => calls[r][i + 1][1] = calls[r][i][1]
        /\ (w_attempt[r] = 1 /\ wpc[r] = "invoke") => now >= w_wake[r]
        /\ \A k \in Keys :
              S4(r, k)
              => /\ get_request_status(r).status = "completed"
                 /\ get_all_keys_status(now)[k].requests_last_minute = 1

\* scenario S4 has run to its end on the single key of the configuration
C12_Witness ==
    \E r \in results :
        /\ cfg.nkeys = 1
        /\ S4(r, 0)
        /\ now >= items[r].timestamp + BackoffSeconds

\* the requests that have entered processing
EnteredProcessing == { r \in Reqs : dispatched_at[r] # None }

\* with one key, two dispatches are at least 60 / rpm_per_key s apart
DispatchesSpaced ==
    cfg.nkeys = 1
    => \A r1, r2 \in EnteredProcessing :
          (r1 # r2 /\ dispatched_at[r1] <= dispatched_at[r2])
          => (dispatched_at[r2] - dispatched_at[r1]) * rpm_per_key
                 >= WindowSeconds

C14_PopsSmallest ==
    [][ \A r \in queue \ queue' :
           \A q \in queue :
              /\ items[r].priority <= items[q].priority
              /\ items[r].priority = items[q].priority
                    => items[r].timestamp <= items[q].timestamp ]_vars

\* scenario S6: A (priority 5) was dispatched first; B (priority 1), which
\* arrived while A was in flight, is popped while C (priority 5, not
\* enqueued after B) is still queued
C14_Witness ==
    \E a, b, c \in Reqs :
        /\ max_concurrent = 1
        /\ items[a].priority = 5 /\ items[b].priority = 1
        /\ items[c].priority = 5
        /\ dispatched_at[a] # None /\ dispatched_at[a] < items[b].timestamp
        /\ items[c].timestamp <= items[b].timestamp
        /\ c \in queue
        /\ d_item = b /\ dpc = "mark"

(* C15 (as stated): a record that became completed or failed less than     *)
(* max_age_seconds ago is still held in results (get_request_status finds  *)
(* it), however long it had waited before.                                 *)
C15_RetainedSinceTerminal ==
    \A r \in Reqs :
        (terminal_at[r] # None /\ now - terminal_at[r] < MaxAgeSeconds)
        => get_request_status(r).status # "not_found"

(* C16: clean_old_results never removes a pending or processing record,    *)
(* however old: a record leaves results only when its status is terminal,  *)
(* and a non-terminal id returned by enqueue_request is always found by    *)
(* get_request_status.                                                     *)
C16_NonTerminalKept ==
    /\ [] ( \A r \in Reqs :
              (epc[r] = "done" /\ ~Terminal(items[r].status))
              => get_request_status(r).status \in {"pending", "processing"} )
    /\ [][ \A r \in results \ results' : Terminal(items[r].status) ]_vars

\* clean_old_results has just run over a non-terminal record older than
\* max_age_seconds
C16_Witness ==
    \E r \in results :
        /\ items[r].status \in {"pending", "processing"}
        /\ now - items[r].timestamp > MaxAgeSeconds
        /\ dpc = "empty"

(* C17 (as stated): a key whose client failed to initialise is never       *)
(* returned by get_available_key, never assigned to a request by the       *)
(* dispatcher, and never has a use recorded.                               *)
C17_UnusableNeverAssigned ==
    /\ d_key \in clients \cup {None}
    /\ \A r \in Reqs :
          get_request_status(r).status \in {"processing", "completed", "failed"}
          => get_request_status(r).google_api_key \in clients
    /\ \A k \in Keys \ clients :
          get_all_keys_status(now)[k].requests_last_minute = 0

\* the threads executing _process_queue
Dispatchers == { t \in ThreadIds : tstate[t] = "running" }

(* C18 (as stated): at every instant at most one thread executes           *)
(* _process_queue, whatever the interleaving of start_processing and       *)
(* stop_processing calls (enqueue_request ends with start_processing).     *)
C18_SingleDispatcher == Cardinality(Dispatchers) <= 1

(* C19 (as stated): the first upstream invocation a worker makes for a     *)
(* request is on the key the dispatcher reserved for it (the record's      *)
(* google_api_key), whatever the interleaving of the workers' set_api_key  *)
(* and _rotate_key calls on the shared client; every client is usable.     *)
C19_FirstCallOnReservedKey ==
    \A r \in Reqs :
        (clients = Keys /\ calls[r] # << >>)
        => calls[r][1][1] = items[r].google_api_key

\* the operation run for r raised: execute_with_retry ended without a result
Raised(r) ==
    /\ wpc[r] \in {"finally", "done"}
    /\ calls[r] = << >> \/ calls[r][Len(calls[r])][2] # "ok"

\* the workers launched that have not yet run their finally block
Running == { r \in Reqs : wpc[r] \notin {"idle", "done"} }

(* C20: when the operation run by a worker raises, the worker catches it:  *)
(* the record is failed with its error set, active_requests is decremented *)
(* exactly once per worker (it counts the workers still running), and the  *)
(* step that records the failure leaves the dispatcher loop where it was.  *)
C20_WorkerCatches ==
    /\ [] ( /\ \A r \in Reqs :
                 Raised(r) => /\ items[r].status = "failed"
                              /\ items[r].error # "None"
            /\ active_requests = Cardinality(Running) )
    /\ [][ \A r \in Reqs :
              (items[r].status # "failed" /\ items'[r].status = "failed")
              => UNCHANGED << dpc, thread_alive, stop_event >> ]_vars

\* a request failed, and the dispatcher dispatched another one afterwards
C20_Witness ==
    \E r, q \in Reqs :
        /\ Raised(r) /\ wpc[r] = "done"
        /\ dispatched_at[q] # None
        /\ terminal_at[r] <= dispatched_at[q]
        /\ dispatched_at[r] < dispatched_at[q]
        /\ wpc[q] = "done" /\ items[q].status = "completed"

(* C21 (as stated): when both attempts on a key fail with a server error   *)
(* and fewer than max_retries rotations were made, execute_with_retry      *)
(* rotates and invokes again: it does not raise that server error.         *)
C21_PersistentTransientRotates ==
    \A r \in Reqs :
        ~ ( /\ wpc[r] = "write_failed"
            /\ w_last_error[r] = "server_error"
            /\ w_attempt[r] = 1
            /\ w_retries[r] < max_retries )

(* C22 (as stated): a None response is an upstream error that is retried   *)
(* on the same key: execute_with_retry does not raise on a None response   *)
(* to the first attempt on a key.                                          *)
C22_NullIsRetried ==
    \A r \in Reqs :
        ~ ( /\ wpc[r] = "write_failed"
            /\ w_last_error[r] = "null"
            /\ w_attempt[r] = 0 )

\* execute_with_retry for r has ended by raising
RaisedFrom(r) == wpc[r] \in {"write_failed", "finally", "done"}

(* ------------------ the threads taking the locks ----------------------- *)
lockRest == << cfg, now, engineVars, threadVars, enqVars, dispVars,
               clientVars, workerVars, calls, call_at, usage_log,
               dispatched_at, terminal_at >>

\* the step thread t is at
StepOf(t) == Steps(tpos[t].prog)[tpos[t].pc]
InMethod(t) == tpos[t].prog[1] # "idle"

\* the position after the current step: the end of the method is idle
Advance(t) ==
    IF tpos[t].pc = Len(Steps(tpos[t].prog))
    THEN IdlePos
    ELSE [tpos[t] EXCEPT !.pc = @ + 1]

\* thread t enters one of its methods
LBegin(t) ==
    /\ ~InMethod(t)
    /\ \E p \in ProgramsOf(t) : tpos' = [tpos EXCEPT ![t] = [prog |-> p, pc |-> 1]]
    /\ UNCHANGED << held, lockRest >>

\* Lock.__enter__: blocks while another thread holds the lock
LAcquire(t) ==
    /\ InMethod(t)
    /\ StepOf(t).op = "acq"
    /\ held[StepOf(t).lock] = None
    /\ held' = [held EXCEPT ![StepOf(t).lock] = t]
    /\ tpos' = [tpos EXCEPT ![t] = Advance(t)]
    /\ UNCHANGED lockRest

\* Lock.__exit__
LRelease(t) ==
    /\ InMethod(t)
    /\ StepOf(t).op = "rel"
    /\ held' = [held EXCEPT ![StepOf(t).lock] = None]
    /\ tpos' = [tpos EXCEPT ![t] = Advance(t)]
    /\ UNCHANGED lockRest

\* operation_func(**item.args) returns or raises
LUpstream(t) ==
    /\ InMethod(t)
    /\ StepOf(t).op = "call"
    /\ tpos' = [tpos EXCEPT ![t] = Advance(t)]
    /\ UNCHANGED << held, lockRest >>

\* _process_queue: "continue" (empty queue, cap reached, no key, failed pop)
LContinue(t) ==
    /\ tpos[t].prog[1] = "dispatch"
    /\ StepOf(t).op = "acq"
    /\ \A l \in Locks : held[l] # t
    /\ tpos' = [tpos EXCEPT ![t] = IdlePos]
    /\ UNCHANGED << held, lockRest >>

InitLock == Init /\ cfg.name = "race"

NextLock ==
    \E t \in LThreads :
        \/ LBegin(t)
        \/ LAcquire(t)
        \/ LRelease(t)
        \/ LUpstream(t)
        \/ LContinue(t)

LockSpec == InitLock /\ [][NextLock]_vars

(* ------------ GoogleApiKeyManager through its public methods ----------- *)
\* a call of get_available_key(); d_key holds what it returned
PoolGet ==
    /\ key_timestamps' = Pruned(now)
    /\ d_key' = get_available_key(now)
    /\ UNCHANGED << now, items, results, queue, last_request_times,
                    active_requests, threadVars, enqVars, dpc, d_item,
                    clientVars, workerVars, histVars >>

\* a call of record_usage(key)
PoolRecord(key) ==
    /\ Len(usage_log[key]) < MaxUses
    /\ record_usage(key, now)
    /\ UNCHANGED << now, items, results, queue, active_requests, threadVars,
                    enqVars, dpc, d_key, d_item, clientVars, workerVars, cfg, lockVars,
                    calls, call_at, dispatched_at, terminal_at >>

InitPool == Init /\ cfg.name = "pool"

NextPool ==
    \/ Tick
    \/ PoolGet
    \/ \E key \in Keys : PoolRecord(key)

PoolSpec == InitPool /\ [][NextPool]_vars

(* C23: after a quota error no further attempt is made in the same visit   *)
(* of a key, also when it was the retry after a server error: the next     *)
(* invocation, if any, is the first attempt after one more rotation, and   *)
(* the request fails with the quota error only when max_retries rotations  *)
(* were made before it.                                                    *)
C23_QuotaGoesToRotation ==
    \A r \in Reqs : \A i \in 1..Len(calls[r]) :
        calls[r][i][2] = "quota"
        => /\ i < Len(calls[r])
                 => call_at[r][i + 1] = << call_at[r][i][1] + 1, 0 >>
           /\ ( /\ i = Len(calls[r])
                /\ wpc[r] \in {"write_failed", "finally"} )
                 => IF w_last_error[r] = "quota"
                    THEN call_at[r][i][1] = max_retries
                    ELSE w_retries[r] = call_at[r][i][1] + 1

\* a quota error on the retry that followed a server error, then a rotation
C23_Witness ==
    \E r \in Reqs : \E i \in 1..Len(calls[r]) :
        /\ calls[r][i][2] = "quota"
        /\ call_at[r][i][2] = 1
        /\ i < Len(calls[r])
        /\ calls[r][i + 1][1] # calls[r][i][1]

(* C24: an error that is neither a server error nor a quota error is the   *)
(* last invocation of its request, whatever attempt and visit it occurred  *)
(* on: execute_with_retry raises with the rotation count unchanged and the *)
(* record, as long as it is retained, is failed with that error.           *)
C24_FatalIsFinal ==
    \A r \in Reqs : \A i \in 1..Len(calls[r]) :
        calls[r][i][2] = "other"
        => /\ i = Len(calls[r])
           /\ RaisedFrom(r)
           /\ wpc[r] \in {"write_failed", "finally"}
                 => /\ w_retries[r] = call_at[r][i][1]
                    /\ w_attempt[r] = call_at[r][i][2]
           /\ (wpc[r] \in {"finally", "done"} /\ r \in results)
                 => /\ get_request_status(r).status = "failed"
                    /\ get_request_status(r).error = "other"

\* a fatal error on the retry attempt of the visit after the first rotation
C24_Witness ==
    \E r \in results :
        /\ calls[r] # << >>
        /\ calls[r][Len(calls[r])][2] = "other"
        /\ call_at[r][Len(calls[r])] = << 1, 1 >>
        /\ wpc[r] = "done"
        /\ items[r].status = "failed"

(* C25: execute_with_retry makes at most max_retries rotations and at most *)
(* two invocations per visit of a key, hence at most 2 * (max_retries + 1) *)
(* invocations per request.                                                *)
C25_BoundedRetry ==
    \A r \in Reqs :
        /\ w_retries[r] <= max_retries
        /\ Len(calls[r]) <= 2 * (max_retries + 1)
        /\ \A i \in 1..Len(calls[r]) :
              /\ call_at[r][i][1] \in 0..max_retries
              /\ call_at[r][i][2] \in 0..1
              /\ \A j \in 1..Len(calls[r]) :
                    call_at[r][i] = call_at[r][j] => i = j

\* the longest run: a server error and a quota error on each of three visits
C25_Witness ==
    \E r \in Reqs :
        /\ Len(calls[r]) = 2 * (max_retries + 1)
        /\ wpc[r] = "done"

(* C26: when execute_with_retry rotates, the key it switches to is one the *)
(* pool holds eligible at that moment: fewer than rpm_per_key timestamps   *)
(* in the last 60 s and the minimum interval elapsed since its last use.   *)
C26_RotationThroughPool ==
    [][ \A r \in Reqs :
          (wpc[r] = "rotate" /\ wpc'[r] = "get_client")
          => /\ Len(Pruned(now)[current_key_index']) < rpm_per_key
             /\ IntervalOk(current_key_index', now) ]_vars

(* C27: whenever get_available_key returns key k at time t, t minus the    *)
(* time of k's last recorded use is at least 60 / rpm_per_key; when no key *)
(* satisfies this it returns None.                                         *)
C27_MinimumInterval ==
    [][ PoolGet
        => /\ d_key' # None
                 => (now - last_request_times[d_key']) * rpm_per_key
                        >= WindowSeconds
           /\ (\A k \in Keys : (now - last_request_times[k]) * rpm_per_key
                                   < WindowSeconds)
                 => d_key' = None ]_vars

\* a key returned exactly 60 / rpm_per_key after its last use, while the
\* other keys were used too recently
C27_Witness ==
    /\ cfg.name = "pool"
    /\ d_key # None
    /\ usage_log[d_key] # << >>
    /\ (now - last_request_times[d_key]) * rpm_per_key = WindowSeconds
    /\ \A k \in Keys \ {d_key} : last_request_times[k] = now

C29_CapacityMaximal ==
    [][ PoolGet
        => (d_key' # None
            => \A k \in Keys :
                  (now - last_request_times[k]) * rpm_per_key >= WindowSeconds
                  => rpm_per_key - Len(key_timestamps'[k])
                        <= rpm_per_key - Len(key_timestamps'[d_key'])) ]_vars

\* a later key returned in place of an earlier one that has less capacity
\* left although its interval has elapsed
C29_Witness ==
    /\ cfg.name = "pool"
    /\ d_key # None
    /\ \E k \in Keys :
          /\ k < d_key
          /\ (now - last_request_times[k]) * rpm_per_key >= WindowSeconds
          /\ Len(Pruned(now)[k]) > Len(Pruned(now)[d_key])
          /\ Len(Pruned(now)[k]) < rpm_per_key

(* C30: among the eligible keys of greatest available capacity             *)
(* get_available_key returns one of greatest idle time, and among those    *)
(* the one of lowest index.                                                *)
C30_TieBreaking ==
    [][ PoolGet
        => (d_key' # None
            => \A k \in Keys :
                  ( /\ (now - last_request_times[k]) * rpm_per_key
                          >= WindowSeconds
                    /\ Len(key_timestamps'[k]) = Len(key_timestamps'[d_key']) )
                  => \/ last_request_times[k] > last_request_times[d_key']
                     \/ /\ last_request_times[k] = last_request_times[d_key']
                        /\ d_key' <= k) ]_vars

\* the requests dispatched on key k whose record_usage call has been made
RecordedFor(k) ==
    { r \in Reqs : /\ items[r].google_api_key = k
                   /\ \/ wpc[r] # "idle"
                      \/ (dpc = "launch" /\ d_item = r) }

(* C31: record_usage is called exactly once for each worker launched, for  *)
(* the key assigned to the worker's request, after the request is marked   *)
(* processing and before the worker is launched; a dispatcher iteration    *)
(* that launches no worker calls it not at all.                            *)
C31_RecordIffLaunched ==
    \A k \in Keys :
        /\ Len(usage_log[k]) = Cardinality(RecordedFor(k))
        /\ \A r \in RecordedFor(k) :
              \E i \in 1..Len(usage_log[k]) : usage_log[k][i] >= dispatched_at[r]

\* two workers launched on one key, the dispatcher back at the loop head
\* with a request still queued that it could not dispatch
C31_Witness ==
    \E k \in Keys :
        /\ Len(usage_log[k]) = 2
        /\ Cardinality({ r \in Reqs : wpc[r] # "idle" }) = 2
        /\ queue # {}
        /\ dpc = "empty"
        /\ now = dispatched_at[CHOOSE r \in Reqs : wpc[r] # "idle"]

(* C32: a request fails with the "all API keys are currently unusable"     *)
(* error of _get_current_client only when no client was initialised,       *)
(* whatever the other workers do to current_key_index meanwhile.           *)
C32_UnusableOnlyIfAllDown ==
    \A r \in Reqs :
        w_last_error[r] = "all_unusable" => clients = {}

(* C33: a record shown by get_request_status has no assigned key exactly   *)
(* while it is pending (the key is set in the step that makes it           *)
(* processing), and a key once assigned never changes.                     *)
C33_AssignedSinceProcessing ==
    /\ [](\A r \in results :
             (get_request_status(r).status = "pending")
                <=> (get_request_status(r).google_api_key = None))
    /\ [][ \A r \in Reqs :
              items[r].google_api_key # None
              => items'[r].google_api_key = items[r].google_api_key ]_vars

\* a terminal record and a processing one with their keys, next to a
\* pending one without
C33_Witness ==
    \E r, q, p \in results :
        /\ Terminal(items[r].status) /\ items[r].google_api_key # None
        /\ items[q].status = "processing" /\ items[q].google_api_key # None
        /\ items[p].status = "pending" /\ items[p].google_api_key = None

\* thread t holds lock l
Holds(t, l) == held[l] = t

\* thread t waits for a lock another thread holds
Blocked(t) ==
    /\ InMethod(t)
    /\ StepOf(t).op = "acq"
    /\ held[StepOf(t).lock] # None

(* C34: no lock is held across an upstream call: the thread executing the  *)
(* call holds none, and whoever holds a lock is at the release of that     *)
(* lock, so no holder waits for an upstream call to end.                   *)
C34_NoLockAcrossUpstream ==
    /\ \A t \in LThreads :
          (InMethod(t) /\ StepOf(t).op = "call")
          => \A l \in Locks : ~Holds(t, l)
    /\ \A l \in Locks :
          held[l] # None => StepOf(held[l]) = Rel(l)

\* the worker in the upstream call while the results lock and active_lock
\* are held by others
C34_Witness ==
    /\ cfg.name = "race"
    /\ InMethod(1) /\ StepOf(1).op = "call"
    /\ held[ResultsLock] \notin {None, 1}
    /\ held[ActiveLock] \notin {None, 1}

(* C39: no thread waits for a lock while it holds another, and no thread   *)
(* waits for a lock whose holder is itself waiting, so some thread can     *)
(* always take a step.                                                     *)
C39_DeadlockFree ==
    \A t \in LThreads :
        Blocked(t)
        => /\ \A l \in Locks : ~Holds(t, l)
           /\ ~Blocked(held[StepOf(t).lock])
           /\ ENABLED LRelease(held[StepOf(t).lock])

\* two threads waiting for the results lock a third one holds
C39_Witness ==
    \E t, u \in LThreads :
        /\ t # u
        /\ Blocked(t) /\ StepOf(t).lock = ResultsLock
        /\ Blocked(u) /\ StepOf(u).lock = ResultsLock

(* C35: with at least two usable clients, the invocation that follows a    *)
(* rotation is made on a key other than the one that has just answered     *)
(* with the quota error, whatever the other workers do meanwhile.          *)
C35_RotationChangesKey ==
    \A r \in Reqs : \A i \in 1..Len(calls[r]) :
        ( /\ Cardinality(clients) >= 2
          /\ calls[r][i][2] = "quota"
          /\ i < Len(calls[r]) )
        => calls[r][i + 1][1] # calls[r][i][1]

(* C36: a request id is popped from the queue at most once (only while it  *)
(* is queued and was never dispatched, and the pop removes it), a worker   *)
(* is launched for it at most once, and its terminal status is written at  *)
(* most once.                                                              *)
C36_AtMostOnce ==
    /\ [](\A r \in queue : dispatched_at[r] = None /\ wpc[r] = "idle")
    /\ [][ \A r \in Reqs :
              /\ (d_item' = r /\ d_item # r)
                    => /\ r \in queue /\ r \notin queue'
                       /\ dispatched_at[r] = None
              /\ (wpc'[r] = "set_api_key" /\ wpc[r] # "set_api_key")
                    => wpc[r] = "idle"
              /\ (wpc'[r] = "finally" /\ wpc[r] # "finally")
                    => /\ terminal_at[r] = None
                       /\ ~Terminal(items[r].status) ]_vars

\* one request is through, the next one has been popped
C36_Witness ==
    \E r \in Reqs :
        /\ wpc[r] = "done"
        /\ terminal_at[r] # None
        /\ d_item \notin {0, r}
        /\ dpc = "mark"

\* the dispatcher has popped r and has not marked it yet
JustPopped(r) == dpc = "mark" /\ d_item = r

(* C37: every request that enqueue_request has inserted and that is still  *)
(* pending has its record in results and is either in the queue or has     *)
(* just been popped by the dispatcher, whose next step marks it            *)
(* processing; and the queue holds pending requests only.                  *)
C37_NoRequestLost ==
    /\ [](\A r \in Reqs :
             /\ (epc[r] = "done" /\ items[r].status = "pending")
                   => /\ r \in results
                      /\ (r \in queue) # JustPopped(r)
             /\ r \in queue => items[r].status = "pending")
    /\ [][ \A r \in Reqs :
              JustPopped(r)
              => \/ UNCHANGED << dpc, d_item >>
                 \/ /\ items'[r].status = "processing"
                    /\ r \in results'
                    /\ queue' = queue ]_vars

\* one pending request just popped while another one waits in the queue
C37_Witness ==
    \E r, q \in results :
        /\ r # q
        /\ JustPopped(r) /\ items[r].status = "pending" /\ r \notin queue
        /\ q \in queue /\ items[q].status = "pending"

(* C38: when a caller of start_processing (enqueue_request calls it last)  *)
(* returns, a dispatcher thread is alive and the stop flag is cleared,     *)
(* also when stop_processing runs concurrently or ran before.              *)
C38_DispatcherAfterEnqueue ==
    [][ \A c \in Callers :
          (lpc[c] \in {"start_check", "start_start"} /\ lpc'[c] = "done")
          => (is_alive' /\ ~stop_event') ]_vars

====
